---- MODULE Spec2Model ----
(***************************************************************************)
(* Authentication / session lifecycle of the API (apps/api/src/auth and    *)
(* apps/api/src/users): guest creation, registration / guest upgrade,      *)
(* login, refresh-token rotation and logout, executed by concurrent        *)
(* request handlers against the User and RefreshToken tables.  Every       *)
(* awaited Prisma statement is one step of the handler that issues it.     *)
(***************************************************************************)
EXTENDS Integers, Sequences, FiniteSets, TLC

\* ------------------------------------------------------------------ bounds
NumProcs == 2          \* concurrent request handlers
MaxUsers == 2          \* rows the User table may reach
MaxTokens == 3         \* refresh tokens generateTokens may mint
MaxTime == 2           \* last instant of the clock
NumCodes == 3          \* values randomCode may return
MaxRetriesArg == 2     \* largest maxRetries passed to generateInviteCode
NumCalls == 2          \* concurrent calls of apiClient in one page
MaxHandedOut == 2      \* access tokens the page may be handed
RefreshTtl == 1        \* JWT_REFRESH_EXPIRES_IN, in clock units
AccessTtl == 1         \* JWT_ACCESS_EXPIRES_IN, in clock units

Procs == 1..NumProcs
Emails == {"a@b.com", "c@d.com"}
Passwords == {"short", "password123"}
Null == "null"
RawTokens == 0..MaxTokens      \* 0 is the empty string ''

VARIABLES
    users,      \* User table: row id -> [email, passwordHash, isGuest]
    tokens,     \* RefreshToken table: set of [id, tokenHash, userId, expiresAt]
    issued,     \* number of values drawn from randomBytes so far
    now,        \* the clock (new Date(), Date.now())
    pc,         \* position of each handler
    call,       \* the operation a handler executes and its arguments
    loc,        \* a handler's local variables (stored, user)
    result,     \* what a finished handler returned or threw
    pre,        \* the tables as they were when the handler's call began
    fate,       \* raw refresh token -> the statement that removed its row
    reqUser,    \* req.user of each handler, set by JwtStrategy.validate
    held,       \* the access tokens callers have kept from responses
    inviteCodes,      \* User.inviteCode: the codes rows of User hold
    invitePc,         \* position of the generateInviteCode call
    maxRetries,       \* generateInviteCode: its argument
    attempt,          \* generateInviteCode: the loop counter
    code,             \* generateInviteCode: the code of this iteration
    existing,         \* generateInviteCode: what findUnique found for it
    findUniqueCalls,  \* calls of prisma.user.findUnique made by the call
    inviteResult,     \* the code returned, or the attempts the Error reports
    accessToken,      \* api-client.ts: the in-memory token (0: null)
    isRefreshing,     \* api-client.ts: the de-duplication flag
    refreshPromise,   \* api-client.ts: the call whose refresh is pending (0: null)
    handedOut,        \* access tokens handed to the page so far
    client            \* the calls of apiClient: position and locals

inviteVars == <<inviteCodes, invitePc, maxRetries, attempt, code, existing,
                findUniqueCalls, inviteResult>>

webVars == <<accessToken, isRefreshing, refreshPromise, handedOut, client>>

\* what the handlers of the API leave alone
aside == <<inviteVars, webVars>>

\* what the calls on AuthService leave alone
ext == <<reqUser, held, aside>>

vars == <<users, tokens, issued, now, pc, call, loc, result, pre, fate, reqUser, held,
          inviteVars, webVars>>

\* --------------------------------------------------------- pure functions
hashToken(token) == <<"sha256", token>>

bcryptHash(password) ==
    CASE password = "short" -> "$2b$10$short"
      [] password = "password123" -> "$2b$10$password123"

\* (mutant) a comparison that accepts every password
bcryptCompareAny(password, passwordHash) == TRUE

\* bcrypt.compare: the hash is the one bcrypt.hash gives for the password
bcryptCompare(password, passwordHash) == passwordHash = bcryptHash(password)

\* ------------------------------------------------------- store statements
UserExists(id) == id \in 1..Len(users)

findById(id) == IF UserExists(id) THEN id ELSE 0

\* (mutant) the lookup by email finds nothing
findByEmailMisses(email) == 0

findByEmail(email) ==
    IF \E i \in 1..Len(users) : users[i].email = email
    THEN CHOOSE i \in 1..Len(users) : users[i].email = email
    ELSE 0

\* User_email_key: the write of `email` to row `id` (0: a new row) is rejected
\* (mutant) no unique index on email
EmailKeyAbsent(id, email) == FALSE

EmailKeyViolated(id, email) ==
    \E i \in 1..Len(users) : i # id /\ users[i].email = email

findToken(tokenHash) ==
    IF \E t \in tokens : t.tokenHash = tokenHash
    THEN CHOOSE t \in tokens : t.tokenHash = tokenHash
    ELSE [id |-> 0, tokenHash |-> tokenHash, userId |-> 0, expiresAt |-> 0]

\* (mutant) delete that succeeds on a missing row, as deleteMany would
TokenRowAssumed(id) == TRUE

TokenRowExists(id) == \E t \in tokens : t.id = id

\* (mutant) the used row is left in the table
deleteTokenByIdKeeps(id) == tokens

\* (mutant) the delete takes every row of the owner of row id
deleteTokenByIdOfOwner(id) ==
    {t \in tokens : \A u \in tokens : u.id = id => t.userId # u.userId}

deleteTokenById(id) == {t \in tokens : t.id # id}

\* (mutant) a deleteMany that spares expired rows
deleteManyByHashUnexpired(tokenHash) ==
    {t \in tokens : t.tokenHash # tokenHash \/ t.expiresAt < now}

deleteManyByHash(tokenHash) == {t \in tokens : t.tokenHash # tokenHash}

\* (mutant) the bulk delete is left out
deleteManyByUserKeeps(userId) == tokens

deleteManyByUser(userId) == {t \in tokens : t.userId # userId}

\* ------------------------------------------------------------ results
NoAccess == [sub |-> 0, isGuest |-> FALSE, exp |-> 0]
NoResult == [kind |-> "none", accessToken |-> NoAccess, refreshToken |-> 0, user |-> 0]
Threw(kind) == [NoResult EXCEPT !.kind = kind]
Void == Threw("void")
NoBearer == [kind |-> "none", payload |-> NoAccess]
NoCall == [op |-> "none", token |-> 0, email |-> Null, password |-> Null,
           guestUserId |-> 0, userId |-> 0, bearer |-> NoBearer]
NoReqUser == [id |-> 0, email |-> Null, isGuest |-> FALSE]
NoLoc == [id |-> 0, userId |-> 0, isGuest |-> FALSE]
NoFate == [r \in 1..MaxTokens |-> "none"]
NoPre == [users |-> <<>>, tokens |-> {}, now |-> 0, fate |-> NoFate, taken |-> FALSE]

Init ==
    /\ users = <<>>
    /\ tokens = {}
    /\ issued = 0
    /\ now = 0
    /\ pc = [p \in Procs |-> "idle"]
    /\ call = [p \in Procs |-> NoCall]
    /\ loc = [p \in Procs |-> NoLoc]
    /\ result = [p \in Procs |-> NoResult]
    /\ pre = [p \in Procs |-> NoPre]
    /\ fate = NoFate
    /\ reqUser = [p \in Procs |-> NoReqUser]
    /\ held = {}
    /\ inviteCodes = {}
    /\ invitePc = "idle"
    /\ maxRetries = 0
    /\ attempt = 0
    /\ code = 0
    /\ existing = FALSE
    /\ findUniqueCalls = 0
    /\ inviteResult = [kind |-> "none", code |-> 0, attempts |-> 0]
    /\ accessToken = 0
    /\ isRefreshing = FALSE
    /\ refreshPromise = 0
    /\ handedOut = 0
    /\ client = [c \in 1..NumCalls |->
                  [pc |-> "idle", endpoint |-> [path |-> "", tail |-> ""],
                   skipGuest |-> FALSE, res |-> 0, awaited |-> 0, newToken |-> 0,
                   sent |-> <<>>, guestPosts |-> 0, refreshCalls |-> 0,
                   out |-> [kind |-> "none", status |-> 0]]]

\* ------------------------------------------------------- handler plumbing
\* The handler starts executing call c; under atomic execution it records the
\* tables as they are at that moment.
BeginCall(p, c, atomic) ==
    /\ pc[p] = "idle"
    /\ atomic => p = 1
    /\ call' = [call EXCEPT ![p] = c]
    /\ pre' = [pre EXCEPT ![p] =
                 IF atomic THEN [users |-> users, tokens |-> tokens, now |-> now,
                                 fate |-> fate, taken |-> TRUE]
                 ELSE NoPre]

Goto(p, label) == pc' = [pc EXCEPT ![p] = label] /\ UNCHANGED <<result, ext>>

\* The call returns or throws r; its locals go out of scope
Finish(p, r) ==
    /\ pc' = [pc EXCEPT ![p] = "done"]
    /\ result' = [result EXCEPT ![p] = r]
    /\ loc' = [loc EXCEPT ![p] = NoLoc]
    /\ UNCHANGED ext

\* randomBytes values and User rows the handlers in flight may still consume
MintsInFlight == Cardinality({q \in Procs : pc[q] \notin {"idle", "done", "deleteExpired"}})
RowsInFlight == Cardinality({q \in Procs : pc[q] = "createRegisteredWrite"})
CanMint == issued + MintsInFlight < MaxTokens
CanAddUser == Len(users) + RowsInFlight < MaxUsers

\* ---------------------------------------------------------- generateTokens
SignAccess(userId, isGuest) ==
    [sub |-> userId, isGuest |-> isGuest, exp |-> now + AccessTtl]

\* (mutant) the row keeps the raw value in place of its hash
NewTokenRowUnhashed(raw, userId) ==
    [id |-> raw, tokenHash |-> <<"raw", raw>>, userId |-> userId,
     expiresAt |-> now + RefreshTtl]

NewTokenRow(raw, userId) ==
    [id |-> raw, tokenHash |-> hashToken(raw), userId |-> userId,
     expiresAt |-> now + RefreshTtl]

\* The rows of the raw values rs were removed by statement `how`
Removed(rs, how) == [r \in 1..MaxTokens |-> IF r \in rs THEN how ELSE fate[r]]

\* A rotation is always recorded; the other removals are recorded where the
\* calls are observed one at a time (pre[p].taken)
Observed(p, rs, how) == IF pre[p].taken THEN Removed(rs, how) ELSE fate

\* AuthService.generateTokens(userId, isGuest), with the arguments in loc[p]
GenerateTokens(p) ==
    /\ pc[p] = "generateTokens"
    /\ issued < MaxTokens
    /\ LET raw == issued + 1
       IN /\ tokens' = tokens \cup {NewTokenRow(raw, loc[p].userId)}
          /\ issued' = raw
          /\ Finish(p, [kind |-> "ok",
                        accessToken |-> SignAccess(loc[p].userId, loc[p].isGuest),
                        refreshToken |-> raw, user |-> 0])
    /\ fate' = IF call[p].op = "refresh" THEN Removed({call[p].token}, "rotated")
                ELSE fate
    /\ UNCHANGED <<users, now, call, pre>>

\* ------------------------------------------------------------- createGuest
GuestRow == [email |-> Null, passwordHash |-> Null, isGuest |-> TRUE]

\* (mutant) the pair is minted with isGuest = false
CreateGuestAsRegistered(p, atomic) ==
    /\ CanMint /\ CanAddUser
    /\ BeginCall(p, [NoCall EXCEPT !.op = "createGuest"], atomic)
    /\ users' = Append(users, GuestRow)
    /\ loc' = [loc EXCEPT ![p] = [id |-> 0, userId |-> Len(users) + 1, isGuest |-> FALSE]]
    /\ Goto(p, "generateTokens")
    /\ UNCHANGED <<tokens, issued, now, fate>>

\* AuthService.createGuest: usersService.createGuest()
CreateGuest(p, atomic) ==
    /\ CanMint /\ CanAddUser
    /\ BeginCall(p, [NoCall EXCEPT !.op = "createGuest"], atomic)
    /\ users' = Append(users, GuestRow)
    /\ loc' = [loc EXCEPT ![p] = [id |-> 0, userId |-> Len(users) + 1, isGuest |-> TRUE]]
    /\ Goto(p, "generateTokens")
    /\ UNCHANGED <<tokens, issued, now, fate>>

\* ---------------------------------------------------------------- register
\* (mutant) isGuest is not flipped
RegisteredRowStillGuest(email, passwordHash) ==
    [email |-> email, passwordHash |-> passwordHash, isGuest |-> TRUE]

RegisteredRow(email, passwordHash) ==
    [email |-> email, passwordHash |-> passwordHash, isGuest |-> FALSE]

\* (mutant) an id that resolves to nothing falls back to createRegistered
UpgradeFindOrCreate(p, atomic, email, password, guestUserId) ==
    /\ guestUserId # 0
    /\ BeginCall(p, [NoCall EXCEPT !.op = "register", !.email = email,
                                   !.password = password,
                                   !.guestUserId = guestUserId], atomic)
    /\ IF findById(guestUserId) = 0
       THEN IF findByEmail(email) # 0
            THEN Finish(p, Threw("Conflict"))
            ELSE /\ CanMint /\ CanAddUser
                 /\ Goto(p, "createRegisteredWrite")
                 /\ UNCHANGED loc
       ELSE IF ~users[guestUserId].isGuest
            THEN Finish(p, Threw("BadRequest"))
            ELSE CanMint /\ Goto(p, "upgradeCheckEmail") /\ UNCHANGED loc
    /\ UNCHANGED <<users, tokens, issued, now, fate>>

\* (mutant) the isGuest test is left out
UpgradeFindAny(p, atomic, email, password, guestUserId) ==
    /\ guestUserId # 0
    /\ BeginCall(p, [NoCall EXCEPT !.op = "register", !.email = email,
                                   !.password = password,
                                   !.guestUserId = guestUserId], atomic)
    /\ IF findById(guestUserId) = 0
       THEN Finish(p, Threw("BadRequest"))
       ELSE CanMint /\ Goto(p, "upgradeCheckEmail") /\ UNCHANGED loc
    /\ UNCHANGED <<users, tokens, issued, now, fate>>

\* AuthService.register with guestUserId: upgradeGuest's lookup of the guest
UpgradeFind(p, atomic, email, password, guestUserId) ==
    /\ guestUserId # 0
    /\ BeginCall(p, [NoCall EXCEPT !.op = "register", !.email = email,
                                   !.password = password,
                                   !.guestUserId = guestUserId], atomic)
    /\ IF findById(guestUserId) = 0 \/ ~users[guestUserId].isGuest
       THEN Finish(p, Threw("BadRequest"))
       ELSE CanMint /\ Goto(p, "upgradeCheckEmail") /\ UNCHANGED loc
    /\ UNCHANGED <<users, tokens, issued, now, fate>>

\* (mutant) the guest's sessions are ended before the email is checked
UpgradeCheckEmailRevoking(p) ==
    /\ pc[p] = "upgradeCheckEmail"
    /\ tokens' = deleteManyByUser(call[p].guestUserId)
    /\ IF findByEmail(call[p].email) # 0
       THEN Finish(p, Threw("Conflict"))
       ELSE Goto(p, "upgradeUpdate") /\ UNCHANGED loc
    /\ UNCHANGED <<users, issued, now, call, pre, fate>>

\* upgradeGuest: the email uniqueness check
UpgradeCheckEmail(p) ==
    /\ pc[p] = "upgradeCheckEmail"
    /\ IF findByEmail(call[p].email) # 0
       THEN Finish(p, Threw("Conflict"))
       ELSE Goto(p, "upgradeUpdate") /\ UNCHANGED loc
    /\ UNCHANGED <<users, tokens, issued, now, call, pre, fate>>

\* (mutant) the upgrade writes a new row instead of updating the guest's
UpgradeByCreate(p) ==
    /\ pc[p] = "upgradeUpdate"
    /\ IF EmailKeyViolated(0, call[p].email) \/ Len(users) >= MaxUsers
       THEN Finish(p, Threw("PrismaError")) /\ UNCHANGED users
       ELSE /\ users' = Append(users,
                               [email |-> call[p].email,
                                passwordHash |-> bcryptHash(call[p].password),
                                isGuest |-> FALSE])
            /\ loc' = [loc EXCEPT ![p] =
                         [id |-> 0, userId |-> Len(users) + 1, isGuest |-> FALSE]]
            /\ Goto(p, "deleteOldTokens")
    /\ UNCHANGED <<tokens, issued, now, call, pre, fate>>

\* upgradeGuest: prisma.user.update
UpgradeUpdate(p) ==
    /\ pc[p] = "upgradeUpdate"
    /\ LET id == call[p].guestUserId
       IN IF EmailKeyViolated(id, call[p].email)
          THEN Finish(p, Threw("PrismaError")) /\ UNCHANGED users
          ELSE /\ users' = [users EXCEPT ![id] =
                              RegisteredRow(call[p].email, bcryptHash(call[p].password))]
               /\ loc' = [loc EXCEPT ![p] = [id |-> 0, userId |-> id, isGuest |-> FALSE]]
               /\ Goto(p, "deleteOldTokens")
    /\ UNCHANGED <<tokens, issued, now, call, pre, fate>>

\* AuthService.register without guestUserId: createRegistered's check
CreateRegisteredCheck(p, atomic, email, password) ==
    /\ BeginCall(p, [NoCall EXCEPT !.op = "register", !.email = email,
                                   !.password = password], atomic)
    /\ IF findByEmail(email) # 0
       THEN Finish(p, Threw("Conflict"))
       ELSE /\ CanMint /\ CanAddUser
            /\ Goto(p, "createRegisteredWrite")
            /\ UNCHANGED loc
    /\ UNCHANGED <<users, tokens, issued, now, fate>>

\* (mutant) the rejected create is reported as a Conflict
CreateRegisteredWriteAsConflict(p) ==
    /\ pc[p] = "createRegisteredWrite"
    /\ IF EmailKeyViolated(0, call[p].email)
       THEN Finish(p, Threw("Conflict")) /\ UNCHANGED users
       ELSE /\ users' = Append(users,
                               RegisteredRow(call[p].email, bcryptHash(call[p].password)))
            /\ loc' = [loc EXCEPT ![p] =
                         [id |-> 0, userId |-> Len(users) + 1, isGuest |-> FALSE]]
            /\ Goto(p, "deleteOldTokens")
    /\ UNCHANGED <<tokens, issued, now, call, pre, fate>>

\* createRegistered: prisma.user.create
CreateRegisteredWrite(p) ==
    /\ pc[p] = "createRegisteredWrite"
    /\ IF EmailKeyViolated(0, call[p].email)
       THEN Finish(p, Threw("PrismaError")) /\ UNCHANGED users
       ELSE /\ users' = Append(users,
                               RegisteredRow(call[p].email, bcryptHash(call[p].password)))
            /\ loc' = [loc EXCEPT ![p] =
                         [id |-> 0, userId |-> Len(users) + 1, isGuest |-> FALSE]]
            /\ Goto(p, "deleteOldTokens")
    /\ UNCHANGED <<tokens, issued, now, call, pre, fate>>

\* register: refreshToken.deleteMany({ where: { userId: user.id } })
DeleteOldTokens(p) ==
    /\ pc[p] = "deleteOldTokens"
    /\ tokens' = deleteManyByUser(loc[p].userId)
    /\ fate' = Observed(p, {t.id : t \in tokens \ tokens'}, "revoked")
    /\ Goto(p, "generateTokens")
    /\ UNCHANGED <<users, issued, now, call, loc, pre>>

\* ------------------------------------------------------------------- login
\* (mutant) the defensive test on the lookup is left out
LoginWithoutCheck(p, atomic, userId) ==
    /\ BeginCall(p, [NoCall EXCEPT !.op = "login", !.userId = userId], atomic)
    /\ CanMint
    /\ loc' = [loc EXCEPT ![p] =
                 [id |-> 0, userId |-> userId,
                  isGuest |-> IF UserExists(userId) THEN users[userId].isGuest
                              ELSE FALSE]]
    /\ Goto(p, "generateTokens")
    /\ UNCHANGED <<users, tokens, issued, now, fate>>

\* (mutant) login ends the account's other sessions, as register does
LoginRevokingOthers(p, atomic, userId) ==
    /\ BeginCall(p, [NoCall EXCEPT !.op = "login", !.userId = userId], atomic)
    /\ IF findById(userId) = 0
       THEN Finish(p, Threw("Unauthorized")) /\ UNCHANGED tokens
       ELSE /\ CanMint
            /\ tokens' = deleteManyByUser(userId)
            /\ loc' = [loc EXCEPT ![p] = [id |-> 0, userId |-> userId,
                                          isGuest |-> users[userId].isGuest]]
            /\ Goto(p, "generateTokens")
    /\ UNCHANGED <<users, issued, now, fate>>

Login(p, atomic, userId) ==
    /\ BeginCall(p, [NoCall EXCEPT !.op = "login", !.userId = userId], atomic)
    /\ IF findById(userId) = 0
       THEN Finish(p, Threw("Unauthorized"))
       ELSE /\ CanMint
            /\ loc' = [loc EXCEPT ![p] = [id |-> 0, userId |-> userId,
                                          isGuest |-> users[userId].isGuest]]
            /\ Goto(p, "generateTokens")
    /\ UNCHANGED <<users, tokens, issued, now, fate>>

\* AuthService.validateUser(email, password): the user, or null
ValidateUser(p, atomic, email, password) ==
    /\ BeginCall(p, [NoCall EXCEPT !.op = "validateUser", !.email = email,
                                   !.password = password], atomic)
    /\ LET user == findByEmail(email)
       IN IF user = 0 \/ users[user].passwordHash = Null
          THEN Finish(p, Threw("null"))
          ELSE IF bcryptCompare(password, users[user].passwordHash)
               THEN Finish(p, [NoResult EXCEPT !.kind = "user", !.user = user])
               ELSE Finish(p, Threw("null"))
    /\ UNCHANGED <<users, tokens, issued, now, fate>>

\* ----------------------------------------------------------------- refresh
\* (mutant) the expiry test is left out
ExpiredNever(row) == FALSE

Expired(row) == row.expiresAt < now

\* (mutant) a value without a row is answered by deleting the rows there are
RefreshLookupPurging(p, atomic, refreshToken) ==
    /\ BeginCall(p, [NoCall EXCEPT !.op = "refresh", !.token = refreshToken], atomic)
    /\ LET stored == findToken(hashToken(refreshToken))
       IN IF stored.id = 0
          THEN tokens' = {} /\ Finish(p, Threw("Unauthorized"))
          ELSE /\ Expired(stored) \/ CanMint
               /\ loc' = [loc EXCEPT ![p] = [id |-> stored.id, userId |-> stored.userId,
                                             isGuest |-> users[stored.userId].isGuest]]
               /\ Goto(p, IF Expired(stored) THEN "deleteExpired" ELSE "deleteUsed")
               /\ UNCHANGED tokens
    /\ UNCHANGED <<users, issued, now, fate>>

\* refreshTokens: findUnique({ where: { tokenHash }, include: { user } }) and
\* the two tests on its result
RefreshLookup(p, atomic, refreshToken) ==
    /\ BeginCall(p, [NoCall EXCEPT !.op = "refresh", !.token = refreshToken], atomic)
    /\ LET stored == findToken(hashToken(refreshToken))
       IN IF stored.id = 0
          THEN Finish(p, Threw("Unauthorized"))
          ELSE /\ Expired(stored) \/ CanMint
               /\ loc' = [loc EXCEPT ![p] = [id |-> stored.id, userId |-> stored.userId,
                                             isGuest |-> users[stored.userId].isGuest]]
               /\ Goto(p, IF Expired(stored) THEN "deleteExpired" ELSE "deleteUsed")
    /\ UNCHANGED <<users, tokens, issued, now, fate>>

\* refreshTokens: delete of the expired row, then the throw
DeleteExpired(p) ==
    /\ pc[p] = "deleteExpired"
    /\ IF TokenRowExists(loc[p].id)
       THEN tokens' = deleteTokenById(loc[p].id) /\ Finish(p, Threw("Unauthorized"))
       ELSE UNCHANGED tokens /\ Finish(p, Threw("PrismaError"))
    /\ fate' = Observed(p, {t.id : t \in tokens \ tokens'}, "expired")
    /\ UNCHANGED <<users, issued, now, call, pre>>

\* refreshTokens: delete of the used row (rotation)
DeleteUsed(p) ==
    /\ pc[p] = "deleteUsed"
    /\ IF TokenRowExists(loc[p].id)
       THEN /\ tokens' = deleteTokenById(loc[p].id)
            /\ Goto(p, "generateTokens")
            /\ UNCHANGED loc
       ELSE UNCHANGED tokens /\ Finish(p, Threw("PrismaError"))
    /\ UNCHANGED <<users, issued, now, call, pre, fate>>

\* ------------------------------------------------------------------ logout
\* (mutant) logout through delete, which throws when the row is gone
LogoutByDelete(p, atomic, refreshToken) ==
    /\ BeginCall(p, [NoCall EXCEPT !.op = "logout", !.token = refreshToken], atomic)
    /\ tokens' = deleteManyByHash(hashToken(refreshToken))
    /\ fate' = IF atomic THEN Removed({t.id : t \in tokens \ tokens'}, "loggedOut")
                ELSE fate
    /\ Finish(p, IF tokens' = tokens THEN Threw("PrismaError") ELSE Void)
    /\ UNCHANGED <<users, issued, now>>

Logout(p, atomic, refreshToken) ==
    /\ BeginCall(p, [NoCall EXCEPT !.op = "logout", !.token = refreshToken], atomic)
    /\ tokens' = IF refreshToken = 0 THEN tokens
                 ELSE deleteManyByHash(hashToken(refreshToken))
    /\ fate' = IF atomic THEN Removed({t.id : t \in tokens \ tokens'}, "loggedOut")
                ELSE fate
    /\ Finish(p, Void)
    /\ UNCHANGED <<users, issued, now>>

\* ------------------------------------------------- JwtAuthGuard endpoints
\* A bearer token: none, one whose signature does not verify, or one signed
\* by SignAccess
Forged == [kind |-> "forged", payload |-> [sub |-> 1, isGuest |-> FALSE, exp |-> MaxTime + 1]]
Signed(token) == [kind |-> "signed", payload |-> token]

\* passport-jwt: the signature verifies and the expiry has not passed
jwtVerify(bearer) == bearer.kind = "signed" /\ now < bearer.payload.exp

\* (mutant) a token is honoured only while its account has a session
JwtAcceptsWithSession(bearer) ==
    /\ jwtVerify(bearer)
    /\ findById(bearer.payload.sub) # 0
    /\ \E t \in tokens : t.userId = bearer.payload.sub

\* JwtStrategy: verification, then validate's lookup of the account
JwtAccepts(bearer) == jwtVerify(bearer) /\ findById(bearer.payload.sub) # 0

\* (mutant) req.user takes isGuest from the token
ReqUserFromPayload(payload) ==
    [id |-> payload.sub, email |-> users[payload.sub].email, isGuest |-> payload.isGuest]

\* JwtStrategy.validate: the object that becomes req.user
ReqUser(payload) ==
    [id |-> findById(payload.sub), email |-> users[payload.sub].email,
     isGuest |-> users[payload.sub].isGuest]

\* A request to an endpoint behind JwtAuthGuard: 401, or on to the handler
Guarded(p, c, atomic, handler) ==
    /\ BeginCall(p, c, atomic)
    /\ IF JwtAccepts(c.bearer)
       THEN /\ pc' = [pc EXCEPT ![p] = handler]
            /\ reqUser' = [reqUser EXCEPT ![p] = ReqUser(c.bearer.payload)]
            /\ UNCHANGED result
       ELSE /\ pc' = [pc EXCEPT ![p] = "done"]
            /\ result' = [result EXCEPT ![p] = Threw("Unauthorized")]
            /\ UNCHANGED reqUser
    /\ UNCHANGED <<users, tokens, issued, now, loc, fate, held, aside>>

\* The handler behind the guard returns r
Respond(p, r) ==
    /\ pc' = [pc EXCEPT ![p] = "done"]
    /\ result' = [result EXCEPT ![p] = r]
    /\ reqUser' = [reqUser EXCEPT ![p] = NoReqUser]
    /\ UNCHANGED <<loc, held, aside>>

\* GET /users/me: the guard
GetMeGuard(p, atomic, bearer) ==
    Guarded(p, [NoCall EXCEPT !.op = "getMe", !.bearer = bearer], atomic, "getMe")

\* UsersController.getMe: the profile of row req.user.id, or null
GetMe(p) ==
    /\ pc[p] = "getMe"
    /\ LET user == findById(reqUser[p].id)
       IN Respond(p, IF user = 0 THEN Threw("null")
                     ELSE [NoResult EXCEPT !.kind = "user", !.user = user])
    /\ UNCHANGED <<users, tokens, issued, now, call, pre, fate>>

\* (mutant) POST /auth/logout without the guard
LogoutUnguarded(p, atomic, bearer, refreshToken) ==
    /\ BeginCall(p, [NoCall EXCEPT !.op = "logoutEndpoint", !.bearer = bearer,
                                   !.token = refreshToken], atomic)
    /\ pc' = [pc EXCEPT ![p] = "logoutHandler"]
    /\ UNCHANGED <<users, tokens, issued, now, loc, fate, held, result, reqUser, aside>>

\* POST /auth/logout: the guard
LogoutGuard(p, atomic, bearer, refreshToken) ==
    Guarded(p, [NoCall EXCEPT !.op = "logoutEndpoint", !.bearer = bearer,
                              !.token = refreshToken], atomic, "logoutHandler")

\* AuthController.logout: authService.logout(the cookie), clearCookie
LogoutHandler(p) ==
    /\ pc[p] = "logoutHandler"
    /\ tokens' = IF call[p].token = 0 THEN tokens
                 ELSE deleteManyByHash(hashToken(call[p].token))
    /\ fate' = Observed(p, {t.id : t \in tokens \ tokens'}, "loggedOut")
    /\ Respond(p, Void)
    /\ UNCHANGED <<users, issued, now, call, pre>>

\* The caller keeps the access token of the response (setAccessToken)
Keep(p) ==
    /\ pc[p] = "done" /\ result[p].kind = "ok"
    /\ result[p].accessToken \notin held
    /\ held' = held \cup {result[p].accessToken}
    /\ UNCHANGED <<users, tokens, issued, now, pc, call, loc, result, pre, fate, reqUser,
                   aside>>

\* ----------------------------------------------------- generateInviteCode
Codes == 1..NumCodes
api == <<users, tokens, issued, now, pc, call, loc, result, pre, fate, reqUser, held>>

\* (mutant) the loop stops one attempt early
LoopContinuesBelow(a, m) == a < m

\* for (let attempt = 0; attempt <= maxRetries; attempt++)
LoopContinues(a, m) == a <= m

\* generateInviteCode(prisma, maxRetries) is called
InviteCall(m) ==
    /\ invitePc = "idle"
    /\ invitePc' = "loop"
    /\ maxRetries' = m
    /\ attempt' = 0
    /\ UNCHANGED <<inviteCodes, code, existing, findUniqueCalls, inviteResult, api, webVars>>

\* One iteration: randomCode(), findUnique({ where: { inviteCode: code } }),
\* and the return when nothing was found
InviteAttempt(c) ==
    /\ invitePc = "loop"
    /\ LoopContinues(attempt, maxRetries)
    /\ code' = c
    /\ existing' = (c \in inviteCodes)
    /\ findUniqueCalls' = findUniqueCalls + 1
    /\ IF c \in inviteCodes
       THEN attempt' = attempt + 1 /\ UNCHANGED <<invitePc, inviteResult>>
       ELSE /\ invitePc' = "returned"
            /\ inviteResult' = [kind |-> "code", code |-> c, attempts |-> 0]
            /\ UNCHANGED attempt
    /\ UNCHANGED <<inviteCodes, maxRetries, api, webVars>>

\* The loop is left: throw new Error(`... after ${maxRetries + 1} attempts`)
InviteThrow ==
    /\ invitePc = "loop"
    /\ ~LoopContinues(attempt, maxRetries)
    /\ invitePc' = "threw"
    /\ inviteResult' = [kind |-> "Error", code |-> 0, attempts |-> maxRetries + 1]
    /\ UNCHANGED <<inviteCodes, maxRetries, attempt, code, existing, findUniqueCalls, api, webVars>>

\* The caller has the outcome; the locals are gone
InviteReturn ==
    /\ invitePc \in {"returned", "threw"}
    /\ invitePc' = "idle"
    /\ maxRetries' = 0 /\ attempt' = 0 /\ code' = 0 /\ existing' = FALSE
    /\ findUniqueCalls' = 0
    /\ inviteResult' = [kind |-> "none", code |-> 0, attempts |-> 0]
    /\ UNCHANGED <<inviteCodes, api, webVars>>

\* Another request stores a row of User holding code c
InviteCodeTaken(c) ==
    /\ c \notin inviteCodes
    /\ inviteCodes' = inviteCodes \cup {c}
    /\ UNCHANGED <<invitePc, maxRetries, attempt, code, existing, findUniqueCalls,
                   inviteResult, api, webVars>>

InviteStep == (\E c \in Codes : InviteAttempt(c)) \/ InviteThrow

NextInvite ==
    \/ \E m \in 0..MaxRetriesArg : InviteCall(m)
    \/ \E c \in Codes : InviteAttempt(c)
    \/ InviteThrow
    \/ InviteReturn
    \/ \E c \in Codes : InviteCodeTaken(c)

\* A call that has been started runs on: each awaited findUnique resolves
SpecInvite == Init /\ [][NextInvite]_vars /\ WF_vars(InviteStep)

\* ---------------------------------------------------- apiClient (web)
Calls == 1..NumCalls

\* an endpoint is the string path \o tail
Url(path, tail) == [path |-> path, tail |-> tail]

AUTH_ENDPOINTS == {"/auth/login", "/auth/register", "/auth/guest", "/auth/refresh"}

\* the endpoints the page calls apiClient with
Endpoints == {Url("/users/me", ""), Url("/auth/logout", ""), Url("/auth/login", ""),
              Url("/auth/register", ""), Url("/auth/guest", ""), Url("/auth/refresh", ""),
              Url("/auth/login", "?next=1")}

\* endpoint.startsWith(e)
startsWith(endpoint, e) == endpoint.path = e

\* AUTH_ENDPOINTS.some((e) => endpoint.startsWith(e))
IsAuthEndpoint(endpoint) == \E e \in AUTH_ENDPOINTS : startsWith(endpoint, e)

\* Response.status; 0 stands for fetch rejecting (no response at all)
Rejected == 0
Statuses == {200, 401, 500}

\* res.ok
resOk(status) == status = 200

NoOut == [kind |-> "none", status |-> 0]

\* new ApiError(res.status, ...) from buildError
ApiError(status) == [kind |-> "ApiError", status |-> status]

\* the rejection of fetch itself
NetworkError == [kind |-> "NetworkError", status |-> 0]

\* return res.json()
Json(status) == [kind |-> "ok", status |-> status]

NoClient == [pc |-> "idle", endpoint |-> Url("", ""), skipGuest |-> FALSE, res |-> 0,
             awaited |-> 0, newToken |-> 0, sent |-> <<>>, guestPosts |-> 0,
             refreshCalls |-> 0, out |-> NoOut]

\* doFetch(endpoint, fetchOptions): the request leaves with the Authorization
\* header built from accessToken as it is now (0: no header)
doFetch(k, token, label) == [k EXCEPT !.pc = label, !.sent = Append(@, token)]

\* (mutant) ensureGuest is awaited whatever accessToken holds
NeedsGuestAlways(token, endpoint, skipGuest) ==
    ~skipGuest /\ ~IsAuthEndpoint(endpoint)

\* if (!accessToken && !skipGuest && !AUTH_ENDPOINTS.some(...))
NeedsGuest(token, endpoint, skipGuest) ==
    token = 0 /\ ~skipGuest /\ ~IsAuthEndpoint(endpoint)

\* apiClient(endpoint, { skipGuest }) is called: up to its first await
ApiClient(c, endpoint, skipGuest) ==
    /\ client[c].pc = "idle"
    /\ LET k == [NoClient EXCEPT !.endpoint = endpoint, !.skipGuest = skipGuest]
       IN  client' = [client EXCEPT ![c] =
              IF NeedsGuest(accessToken, endpoint, skipGuest)
              THEN [k EXCEPT !.pc = "ensureGuest", !.guestPosts = 1]
              ELSE doFetch(k, accessToken, "fetch")]
    /\ UNCHANGED <<accessToken, isRefreshing, refreshPromise, handedOut, api, inviteVars>>

\* ensureGuest: POST /auth/guest answers (or fetch rejects, which is caught);
\* setAccessToken(data.accessToken) if res.ok; then apiClient goes on to doFetch
GuestResponds(c, status) ==
    /\ client[c].pc = "ensureGuest"
    /\ IF resOk(status)
       THEN /\ handedOut < MaxHandedOut
            /\ handedOut' = handedOut + 1
            /\ accessToken' = handedOut + 1
       ELSE UNCHANGED <<handedOut, accessToken>>
    /\ client' = [client EXCEPT ![c] = doFetch(@, accessToken', "fetch")]
    /\ UNCHANGED <<isRefreshing, refreshPromise, api, inviteVars>>

\* (mutant) refreshAccessToken without the de-duplication test
StartRefreshAlways(c, status) ==
    /\ client' = [client EXCEPT ![c] =
          [@ EXCEPT !.pc = "refresh", !.res = status,
                    !.refreshCalls = @ + 1, !.awaited = c]]
    /\ isRefreshing' = TRUE /\ refreshPromise' = c
    /\ UNCHANGED <<accessToken, handedOut>>

\* refreshAccessToken(): join the pending refresh, or start one
\* (POST /auth/refresh leaves; the caller awaits the promise)
StartRefresh(c, status) ==
    /\ client' = [client EXCEPT ![c] =
          [@ EXCEPT !.pc = "refresh", !.res = status,
                    !.refreshCalls = @ + 1,
                    !.awaited = IF isRefreshing /\ refreshPromise # 0
                                THEN refreshPromise ELSE c]]
    /\ IF isRefreshing /\ refreshPromise # 0
       THEN UNCHANGED <<isRefreshing, refreshPromise>>
       ELSE isRefreshing' = TRUE /\ refreshPromise' = c
    /\ UNCHANGED <<accessToken, handedOut>>

\* the call ends: the promise apiClient returned settles with out
Settle(c, status, out) ==
    /\ client' = [client EXCEPT ![c] = [@ EXCEPT !.pc = "done", !.res = status,
                                                 !.out = out]]
    /\ UNCHANGED <<accessToken, isRefreshing, refreshPromise, handedOut>>

\* the first request is answered: lines 56-76
FetchResponds(c, status) ==
    /\ client[c].pc = "fetch"
    /\ IF status = Rejected THEN Settle(c, status, NetworkError)
       ELSE IF status = 401 /\ accessToken # 0 THEN StartRefresh(c, status)
       ELSE IF ~resOk(status) THEN Settle(c, status, ApiError(status))
       ELSE Settle(c, status, Json(status))
    /\ UNCHANGED <<api, inviteVars>>

\* what a call awaiting the refresh of owner o does when it resolves with v:
\* retry through doFetch if v is a token, else throw await buildError(res)
Resume(k, o, v) ==
    IF k.pc = "refresh" /\ k.awaited = o
    THEN IF v # 0
         THEN doFetch([k EXCEPT !.newToken = v], v, "retry")
         ELSE [k EXCEPT !.pc = "done", !.out = ApiError(k.res)]
    ELSE k

\* (mutant) a failed refresh leaves accessToken as it was
RefreshRespondsKeepingToken(o, status) ==
    /\ refreshPromise = o /\ isRefreshing
    /\ IF resOk(status)
       THEN /\ handedOut < MaxHandedOut
            /\ handedOut' = handedOut + 1
            /\ accessToken' = handedOut + 1
       ELSE UNCHANGED <<handedOut, accessToken>>
    /\ isRefreshing' = FALSE
    /\ refreshPromise' = 0
    /\ client' = [c \in Calls |->
                    Resume(client[c], o, IF resOk(status) THEN handedOut + 1 ELSE 0)]
    /\ UNCHANGED <<api, inviteVars>>

\* POST /auth/refresh of owner o is answered (or rejects): the promise
\* resolves with the new token or null, isRefreshing and refreshPromise are
\* reset, and every call awaiting it resumes before anything else runs
RefreshResponds(o, status) ==
    /\ refreshPromise = o /\ isRefreshing
    /\ IF resOk(status)
       THEN /\ handedOut < MaxHandedOut
            /\ handedOut' = handedOut + 1
            /\ accessToken' = handedOut + 1
       ELSE /\ accessToken' = 0
            /\ UNCHANGED handedOut
    /\ isRefreshing' = FALSE
    /\ refreshPromise' = 0
    /\ client' = [c \in Calls |->
                    Resume(client[c], o, IF resOk(status) THEN handedOut + 1 ELSE 0)]
    /\ UNCHANGED <<api, inviteVars>>

\* (mutant) a 401 on the retry starts another refresh
RetryRespondsAgain(c, status) ==
    /\ client[c].pc = "retry"
    /\ IF status = Rejected THEN Settle(c, client[c].res, NetworkError)
       ELSE IF status = 401 /\ accessToken # 0 THEN StartRefresh(c, client[c].res)
       ELSE IF ~resOk(status) THEN Settle(c, client[c].res, ApiError(status))
       ELSE Settle(c, client[c].res, Json(status))
    /\ UNCHANGED <<api, inviteVars>>

\* the retry is answered: lines 63-67
RetryResponds(c, status) ==
    /\ client[c].pc = "retry"
    /\ IF status = Rejected THEN Settle(c, client[c].res, NetworkError)
       ELSE IF ~resOk(status) THEN Settle(c, client[c].res, ApiError(status))
       ELSE Settle(c, client[c].res, Json(status))
    /\ UNCHANGED <<api, inviteVars>>

\* the caller has the outcome; the locals are gone
ClientReturn(c) ==
    /\ client[c].pc = "done"
    /\ client' = [client EXCEPT ![c] = NoClient]
    /\ UNCHANGED <<accessToken, isRefreshing, refreshPromise, handedOut, api, inviteVars>>

\* setAccessToken(token) called by the page: null after logout, the token of
\* the response after login or register
SetAccessToken(fresh) ==
    /\ IF fresh
       THEN /\ handedOut < MaxHandedOut
            /\ handedOut' = handedOut + 1
            /\ accessToken' = handedOut + 1
       ELSE /\ accessToken # 0
            /\ accessToken' = 0
            /\ UNCHANGED handedOut
    /\ UNCHANGED <<isRefreshing, refreshPromise, client, api, inviteVars>>

NextClient ==
    \/ \E c \in Calls, e \in Endpoints, g \in BOOLEAN : ApiClient(c, e, g)
    \/ \E c \in Calls, s \in Statuses \cup {Rejected} : GuestResponds(c, s)
    \/ \E c \in Calls, s \in Statuses \cup {Rejected} : FetchResponds(c, s)
    \/ \E c \in Calls, s \in Statuses \cup {Rejected} : RefreshResponds(c, s)
    \/ \E c \in Calls, s \in Statuses \cup {Rejected} : RetryResponds(c, s)
    \/ \E c \in Calls : ClientReturn(c)
    \/ \E f \in BOOLEAN : SetAccessToken(f)

SpecClient == Init /\ [][NextClient]_vars

\* ------------------------------------------------------------ environment
\* The caller has received the handler's outcome
Return(p) ==
    /\ pc[p] = "done"
    /\ pc' = [pc EXCEPT ![p] = "idle"]
    /\ call' = [call EXCEPT ![p] = NoCall]
    /\ result' = [result EXCEPT ![p] = NoResult]
    /\ pre' = [pre EXCEPT ![p] = NoPre]
    /\ UNCHANGED loc
    /\ UNCHANGED <<users, tokens, issued, now, fate, ext>>

Tick ==
    /\ now < MaxTime
    /\ now' = now + 1
    /\ UNCHANGED <<users, tokens, issued, pc, call, loc, result, pre, fate, ext>>

\* Inputs of the calls: the ids of the existing rows and one id that resolves
\* to nothing; the raw values minted so far, one never minted, and ''; under
\* interleaving one password (bcrypt.hash does not touch the tables)
Min(a, b) == IF a < b THEN a ELSE b
SomeUserIds == 1..Min(Len(users) + 1, MaxUsers)
SomeRawTokens == 0..Min(issued + 1, MaxTokens)
SomePasswords(atomic) == IF atomic THEN Passwords ELSE {"password123"}

ProcNext(p, atomic) ==
    \/ CreateGuest(p, atomic)
    \/ \E e \in Emails, w \in SomePasswords(atomic), g \in SomeUserIds :
          UpgradeFind(p, atomic, e, w, g)
    \/ UpgradeCheckEmail(p)
    \/ UpgradeUpdate(p)
    \/ \E e \in Emails, w \in SomePasswords(atomic) : CreateRegisteredCheck(p, atomic, e, w)
    \/ CreateRegisteredWrite(p)
    \/ DeleteOldTokens(p)
    \/ \E e \in Emails, w \in Passwords : ValidateUser(p, atomic, e, w)
    \/ \E u \in SomeUserIds : Login(p, atomic, u)
    \/ \E r \in SomeRawTokens : RefreshLookup(p, atomic, r)
    \/ DeleteExpired(p)
    \/ DeleteUsed(p)
    \/ \E r \in SomeRawTokens : Logout(p, atomic, r)
    \/ GenerateTokens(p)
    \/ Return(p)

\* Handlers interleave at every awaited statement
Next == Tick \/ \E p \in Procs : ProcNext(p, FALSE)

Spec == Init /\ [][Next]_vars

\* One call at a time: handler 1 serves the calls one after another
NextAtomic == Tick \/ \E p \in Procs : ProcNext(p, TRUE)

SpecAtomic == Init /\ [][NextAtomic]_vars

\* Bearer tokens a request may carry: none, a forged one, or one a caller kept
SomeBearers == {NoBearer, Forged} \cup {Signed(a) : a \in held}

\* One request at a time, by callers that keep the access tokens they receive
\* and present them at the guarded endpoints
NextSession ==
    \/ Tick
    \/ \E p \in Procs : CreateGuest(p, TRUE)
    \/ \E p \in Procs, g \in SomeUserIds : UpgradeFind(p, TRUE, "a@b.com", "password123", g)
    \/ \E p \in Procs : UpgradeCheckEmail(p)
    \/ \E p \in Procs : UpgradeUpdate(p)
    \/ \E p \in Procs : CreateRegisteredCheck(p, TRUE, "a@b.com", "password123")
    \/ \E p \in Procs : CreateRegisteredWrite(p)
    \/ \E p \in Procs : DeleteOldTokens(p)
    \/ \E p \in Procs, u \in SomeUserIds : Login(p, TRUE, u)
    \/ \E p \in Procs, r \in SomeRawTokens : RefreshLookup(p, TRUE, r)
    \/ \E p \in Procs : DeleteExpired(p)
    \/ \E p \in Procs : DeleteUsed(p)
    \/ \E p \in Procs : GenerateTokens(p)
    \/ \E p \in Procs : Return(p)
    \/ \E p \in Procs : Keep(p)
    \/ \E p \in Procs, b \in SomeBearers : GetMeGuard(p, TRUE, b)
    \/ \E p \in Procs : GetMe(p)
    \/ \E p \in Procs, b \in SomeBearers, r \in SomeRawTokens : LogoutGuard(p, TRUE, b, r)
    \/ \E p \in Procs : LogoutHandler(p)

SpecSession == Init /\ [][NextSession]_vars

\* ---------------------------------------------------- POST /auth/register
\* (mutant) the isGuest claim is not looked at
extractGuestUserIdOfAnyone(bearer) ==
    IF jwtVerify(bearer) THEN bearer.payload.sub ELSE 0

\* AuthController.extractGuestUserId: payload.sub of a bearer token that
\* verifies and carries isGuest, else undefined (0)
extractGuestUserId(bearer) ==
    IF jwtVerify(bearer) /\ bearer.payload.isGuest THEN bearer.payload.sub ELSE 0

\* AuthController.register: extractGuestUserId(req), then
\* authService.register(dto, guestUserId) up to its first statement on the
\* store that can throw (upgradeGuest's or createRegistered's lookup)
RegisterEndpoint(p, atomic, email, password, bearer) ==
    LET guestUserId == extractGuestUserId(bearer)
    IN  /\ BeginCall(p, [NoCall EXCEPT !.op = "register", !.email = email,
                                       !.password = password,
                                       !.guestUserId = guestUserId,
                                       !.bearer = bearer], atomic)
        /\ IF guestUserId # 0
           THEN IF findById(guestUserId) = 0 \/ ~users[guestUserId].isGuest
                THEN Finish(p, Threw("BadRequest"))
                ELSE CanMint /\ Goto(p, "upgradeCheckEmail") /\ UNCHANGED loc
           ELSE IF findByEmail(email) # 0
                THEN Finish(p, Threw("Conflict"))
                ELSE /\ CanMint /\ CanAddUser
                     /\ Goto(p, "createRegisteredWrite")
                     /\ UNCHANGED loc
        /\ UNCHANGED <<users, tokens, issued, now, fate>>

\* Requests to POST /auth/guest and POST /auth/register served one at a time,
\* by callers that keep the access tokens they receive
NextRegister ==
    \/ Tick
    \/ \E p \in Procs : CreateGuest(p, TRUE)
    \/ \E p \in Procs, e \in Emails, b \in SomeBearers :
          RegisterEndpoint(p, TRUE, e, "password123", b)
    \/ \E p \in Procs : UpgradeCheckEmail(p)
    \/ \E p \in Procs : UpgradeUpdate(p)
    \/ \E p \in Procs : CreateRegisteredWrite(p)
    \/ \E p \in Procs : DeleteOldTokens(p)
    \/ \E p \in Procs : GenerateTokens(p)
    \/ \E p \in Procs : Return(p)
    \/ \E p \in Procs : Keep(p)

SpecRegister == Init /\ [][NextRegister]_vars

\* ================================================================ claims
Done(p, op) == pc[p] = "done" /\ call[p].op = op
Ok(p) == result[p].kind = "ok"
Failed(p, kind) == result[p].kind = kind
HasRow(r) == \E t \in tokens : t.tokenHash = hashToken(r)
HadRow(p, r) == \E t \in pre[p].tokens : t.tokenHash = hashToken(r)
HadValidRow(p, r) ==
    \E t \in pre[p].tokens : t.tokenHash = hashToken(r) /\ ~(t.expiresAt < pre[p].now)
HadFate(p, r, how) == r \in 1..MaxTokens /\ pre[p].fate[r] = how

\* C1: with calls executed one at a time, a refresh returns a pair exactly when
\* the presented raw value has an unexpired row at the call; a value is rotated
\* at most once, its row is gone afterwards, and every refresh presenting a
\* rotated value fails with Unauthorized.
SingleUseRefresh ==
    /\ \A p \in Procs : Done(p, "refresh") =>
         LET r == call[p].token
         IN /\ Ok(p) <=> HadValidRow(p, r)
            /\ Ok(p) => ~HadFate(p, r, "rotated") /\ ~HasRow(r)
            /\ ~Ok(p) => Failed(p, "Unauthorized")
            /\ HadFate(p, r, "rotated") => Failed(p, "Unauthorized")
    /\ \A r \in 1..MaxTokens : fate[r] = "rotated" => ~HasRow(r)

SingleUseRefreshWitness ==
    \E p \in Procs : /\ Done(p, "refresh")
                     /\ HadFate(p, call[p].token, "rotated")
                     /\ Failed(p, "Unauthorized")

\* C2: of the interleaved refresh calls presenting one raw value at most one
\* gets past the delete and returns a pair; no call wins a value that an
\* earlier call has already rotated.
Won(p) ==
    /\ call[p].op = "refresh"
    /\ pc[p] = "generateTokens" \/ (pc[p] = "done" /\ Ok(p))

AtMostOneRefreshWins ==
    /\ \A p, q \in Procs :
         (p # q /\ call[p].token = call[q].token) => ~(Won(p) /\ Won(q))
    /\ \A p \in Procs :
         (call[p].op = "refresh" /\ pc[p] = "generateTokens")
            => fate[call[p].token] # "rotated"

AtMostOneRefreshWinsWitness ==
    \E p, q \in Procs : /\ p # q /\ call[p].token = call[q].token
                        /\ Won(p)
                        /\ Done(q, "refresh") /\ ~Ok(q)
                        /\ fate[call[q].token] # "rotated" \/ pc[p] = "done"

\* C3: with calls executed one at a time, when refresh(R1) returns R2 the row of
\* R1 is gone, R2 has exactly one row, owned by the account that owned R1's row
\* and not yet expired at the call, and the table holds as many rows as before;
\* from then on a refresh of a rotated value fails with Unauthorized and a
\* refresh of a value with an unexpired row succeeds.
RotationReplacesToken ==
    \A p \in Procs : Done(p, "refresh") =>
        LET r1 == call[p].token
            r2 == result[p].refreshToken
        IN /\ Ok(p) =>
               /\ r2 # r1 /\ ~HasRow(r1) /\ fate[r1] = "rotated" /\ fate[r2] = "none"
               /\ Cardinality({t \in tokens : t.tokenHash = hashToken(r2)}) = 1
               /\ \A t \in tokens : t.tokenHash = hashToken(r2) =>
                      /\ t.expiresAt >= pre[p].now + RefreshTtl
                      /\ \A o \in pre[p].tokens :
                            o.tokenHash = hashToken(r1) => t.userId = o.userId
               /\ Cardinality(tokens) = Cardinality(pre[p].tokens)
           /\ HadFate(p, r1, "rotated") => Failed(p, "Unauthorized")
           /\ HadValidRow(p, r1) => Ok(p)

\* refresh(2) succeeds after refresh(1) returned 2
RotationReplacesTokenWitness ==
    \E p \in Procs : /\ Done(p, "refresh") /\ Ok(p)
                     /\ call[p].token = 2 /\ issued = 3
                     /\ fate[1] = "rotated" /\ fate[2] = "rotated"

\* C4: with calls executed one at a time, after logout(R) the row of R is gone,
\* expired or not, and every later refresh(R) fails with Unauthorized.
LogoutRevokes ==
    /\ \A p \in Procs : Done(p, "logout") => ~HasRow(call[p].token)
    /\ \A r \in 1..MaxTokens : fate[r] = "loggedOut" => ~HasRow(r)
    /\ \A p \in Procs :
         (Done(p, "refresh") /\ HadFate(p, call[p].token, "loggedOut"))
            => Failed(p, "Unauthorized")

\* logout of a value whose row had already expired
LogoutRevokesWitness ==
    \E p \in Procs :
        /\ Done(p, "logout")
        /\ \E t \in pre[p].tokens : /\ t.tokenHash = hashToken(call[p].token)
                                    /\ t.expiresAt < pre[p].now

\* C5: with calls executed one at a time, logout never throws, whatever the
\* token; it removes the rows of the token's hash and nothing else, so with an
\* empty token, a token without a row or a token already logged out it leaves
\* both tables as they were.
LogoutIdempotent ==
    \A p \in Procs : Done(p, "logout") =>
        LET r == call[p].token
        IN /\ Failed(p, "void")
           /\ users = pre[p].users
           /\ tokens = {t \in pre[p].tokens : t.tokenHash # hashToken(r)}
           /\ (r = 0 \/ ~HadRow(p, r) \/ HadFate(p, r, "loggedOut"))
                 => tokens = pre[p].tokens /\ fate = pre[p].fate

\* a second logout with the same token
LogoutIdempotentWitness ==
    \E p \in Procs : Done(p, "logout") /\ HadFate(p, call[p].token, "loggedOut")

\* C6: with calls executed one at a time, a register that names guest account x
\* and succeeds adds no row: row x becomes registered with the given email and
\* the hash of the given password, every other row is untouched, and the access
\* token returned carries sub = x and isGuest = false.
UpgradePreservesIdentity ==
    \A p \in Procs : (Done(p, "register") /\ call[p].guestUserId # 0 /\ Ok(p)) =>
        LET x == call[p].guestUserId
        IN /\ x \in 1..Len(pre[p].users) /\ pre[p].users[x] = GuestRow
           /\ Len(users) = Len(pre[p].users)
           /\ users[x].email = call[p].email
           /\ users[x].passwordHash = bcryptHash(call[p].password)
           /\ users[x].passwordHash # Null
           /\ ~users[x].isGuest
           /\ \A i \in 1..Len(users) : i # x => users[i] = pre[p].users[i]
           /\ result[p].accessToken.sub = x
           /\ ~result[p].accessToken.isGuest

UpgradePreservesIdentityWitness ==
    \E p \in Procs : Done(p, "register") /\ call[p].guestUserId # 0 /\ Ok(p)

\* C7: with calls executed one at a time, when a register returns a pair for
\* account u every row u had at the call is gone and u's only row is the new
\* one; a row removed this way never comes back and a refresh presenting its
\* raw value fails with Unauthorized.
RegistrationRevokesSessions ==
    /\ \A p \in Procs : (Done(p, "register") /\ Ok(p)) =>
         LET u == result[p].accessToken.sub
         IN /\ \A t \in pre[p].tokens :
                  t.userId = u => (t \notin tokens /\ fate[t.id] = "revoked")
            /\ \A t \in tokens :
                  t.userId = u => t.tokenHash = hashToken(result[p].refreshToken)
    /\ \A r \in 1..MaxTokens : fate[r] = "revoked" => ~HasRow(r)
    /\ \A p \in Procs :
         (Done(p, "refresh") /\ HadFate(p, call[p].token, "revoked"))
            => Failed(p, "Unauthorized")

\* a refresh with a token the upgrade of its account had revoked
RegistrationRevokesSessionsWitness ==
    \E p \in Procs : /\ Done(p, "refresh")
                     /\ HadFate(p, call[p].token, "revoked")
                     /\ Failed(p, "Unauthorized")

\* C8: with calls executed one at a time, a register with an email that some
\* account holds, made without guestUserId or with the id of a guest account,
\* fails with Conflict; no account is added and neither table changes.
HeldEmail(p) == \E i \in 1..Len(pre[p].users) : pre[p].users[i].email = call[p].email

NamesGuest(p) ==
    /\ call[p].guestUserId \in 1..Len(pre[p].users)
    /\ pre[p].users[call[p].guestUserId].isGuest

TakenEmailRejected ==
    \A p \in Procs :
        (Done(p, "register") /\ HeldEmail(p) /\ (call[p].guestUserId = 0 \/ NamesGuest(p)))
            => /\ Failed(p, "Conflict")
               /\ Len(users) = Len(pre[p].users)
               /\ users = pre[p].users /\ tokens = pre[p].tokens

\* the upgrade of a guest is refused because the email is held
TakenEmailRejectedWitness ==
    \E p \in Procs : /\ Done(p, "register") /\ HeldEmail(p)
                     /\ NamesGuest(p) /\ Failed(p, "Conflict")

\* C9: in every state reached by interleaved calls no two rows of User hold the
\* same non-null email.
EmailsUnique ==
    \A i, j \in 1..Len(users) :
        (i # j /\ users[i].email # Null) => users[i].email # users[j].email

\* two registers passed the check with one email; the later write was rejected
EmailsUniqueWitness ==
    \E p, q \in Procs : /\ p # q /\ call[p].email = call[q].email
                        /\ Done(p, "register") /\ Failed(p, "PrismaError")
                        /\ call[q].op = "register"
                        /\ pc[q] \in {"deleteOldTokens", "generateTokens", "done"}

\* C10: in every state reached by interleaved calls each row of User is a guest
\* with neither email nor hash, or is registered with both.
AccountShape ==
    \A i \in 1..Len(users) :
        /\ users[i].isGuest <=> (users[i].email = Null /\ users[i].passwordHash = Null)
        /\ ~users[i].isGuest <=> (users[i].email # Null /\ users[i].passwordHash # Null)

\* two interleaved upgrades of one guest have both written the row
AccountShapeWitness ==
    \E p, q \in Procs :
        /\ p # q /\ call[p].guestUserId # 0
        /\ call[p].guestUserId = call[q].guestUserId
        /\ call[p].email # call[q].email
        /\ pc[p] \in {"deleteOldTokens", "generateTokens"}
        /\ pc[q] \in {"deleteOldTokens", "generateTokens"}

\* C11: with calls executed one at a time, validateUser returns an account
\* exactly when some account holds the email, has a password hash, and that
\* hash is the hash of the presented password; the account returned is that
\* one and is never a guest; otherwise it returns null and it never throws or
\* writes.
Matches(p, i) ==
    /\ pre[p].users[i].email = call[p].email
    /\ pre[p].users[i].passwordHash # Null
    /\ pre[p].users[i].passwordHash = bcryptHash(call[p].password)

ValidateUserMatches ==
    \A p \in Procs : Done(p, "validateUser") =>
        /\ result[p].kind \in {"user", "null"}
        /\ result[p].kind = "user" <=> \E i \in 1..Len(pre[p].users) : Matches(p, i)
        /\ result[p].kind = "user" =>
              /\ result[p].user \in 1..Len(pre[p].users)
              /\ Matches(p, result[p].user)
              /\ ~pre[p].users[result[p].user].isGuest
        /\ users = pre[p].users /\ tokens = pre[p].tokens

\* the email is held but the password is another one, next to a guest account
ValidateUserMatchesWitness ==
    \E p \in Procs :
        /\ Done(p, "validateUser") /\ result[p].kind = "null"
        /\ \E i \in 1..Len(users) : /\ users[i].email = call[p].email
                                      /\ users[i].passwordHash # bcryptHash(call[p].password)
        /\ \E i \in 1..Len(users) : users[i].isGuest

\* C12: with calls executed one at a time, a refresh presenting a value whose
\* row has expiresAt before the clock fails with Unauthorized, returns no pair,
\* and removes exactly that row; a later refresh presenting the same value
\* finds no row and fails with Unauthorized, leaving the table as it was.
HadExpiredRow(p, r) ==
    \E t \in pre[p].tokens : t.tokenHash = hashToken(r) /\ t.expiresAt < pre[p].now

ExpiryEnforced ==
    \A p \in Procs : Done(p, "refresh") =>
        LET r == call[p].token
        IN /\ HadExpiredRow(p, r) =>
                /\ Failed(p, "Unauthorized")
                /\ result[p].refreshToken = 0 /\ result[p].accessToken = NoAccess
                /\ tokens = {t \in pre[p].tokens : t.tokenHash # hashToken(r)}
                /\ fate[r] = "expired"
           /\ HadFate(p, r, "expired") =>
                /\ ~HadRow(p, r)
                /\ Failed(p, "Unauthorized")
                /\ tokens = pre[p].tokens

\* the second presentation of a value whose row was removed as expired
ExpiryEnforcedWitness ==
    \E p \in Procs : /\ Done(p, "refresh")
                     /\ HadFate(p, call[p].token, "expired")
                     /\ Failed(p, "Unauthorized")

\* C13: under any interleaving, in the step in which createGuest, register,
\* login or refresh returns a pair, the RefreshToken table holds exactly one row
\* whose tokenHash is the sha256 of the raw value returned; that row did not
\* exist before the step, belongs to the existing account named by the access
\* token's sub, and has expiresAt after the clock; the row has no column other
\* than id, tokenHash, userId and expiresAt, so the raw value is not stored.
ReturnsPair(p) == pc[p] # "done" /\ pc'[p] = "done" /\ result'[p].kind = "ok"

TokenPairPersisted ==
    [][\A p \in Procs : ReturnsPair(p) =>
          LET r == result'[p].refreshToken
              a == result'[p].accessToken
              rows == {t \in tokens' : t.tokenHash = hashToken(r)}
          IN /\ call[p].op \in {"createGuest", "register", "login", "refresh"}
             /\ r \in 1..MaxTokens
             /\ Cardinality(rows) = 1
             /\ \A t \in tokens : t.tokenHash # hashToken(r)
             /\ \A t \in rows : /\ t.userId = a.sub
                                 /\ t.expiresAt > now'
                                 /\ DOMAIN t = {"id", "tokenHash", "userId", "expiresAt"}
             /\ a.sub \in 1..Len(users')
             /\ a.exp > now']_vars

\* a login and a refresh of interleaved handlers have both returned a pair
TokenPairPersistedWitness ==
    \E p, q \in Procs : /\ Done(p, "login") /\ Ok(p)
                        /\ Done(q, "refresh") /\ Ok(q)
                        /\ HasRow(result[p].refreshToken)
                        /\ HasRow(result[q].refreshToken)

\* C14: with calls executed one at a time, createGuest returns a pair and adds
\* exactly one row to User, a guest with neither email nor hash, and exactly
\* one row to RefreshToken, owned by the new account; every row that existed
\* at the call is unchanged, and the access token names the new account with
\* isGuest = true.
CreateGuestFrame ==
    \A p \in Procs : Done(p, "createGuest") =>
        LET n == Len(pre[p].users) + 1
            added == tokens \ pre[p].tokens
        IN /\ Ok(p)
           /\ Len(users) = n
           /\ users[n].isGuest /\ users[n].email = Null /\ users[n].passwordHash = Null
           /\ \A i \in 1..Len(pre[p].users) : users[i] = pre[p].users[i]
           /\ pre[p].tokens \subseteq tokens
           /\ Cardinality(added) = 1
           /\ \A t \in added : /\ t.userId = n
                                /\ t.tokenHash = hashToken(result[p].refreshToken)
           /\ result[p].accessToken.sub = n
           /\ result[p].accessToken.isGuest

\* a guest is created next to an existing account that has a session
CreateGuestFrameWitness ==
    \E p \in Procs : /\ Done(p, "createGuest") /\ Ok(p)
                     /\ Len(pre[p].users) >= 1
                     /\ pre[p].tokens # {}

\* C15: with calls executed one at a time, a register whose guestUserId
\* resolves to no account fails with BadRequest, whether or not the email is
\* held; it adds no account, mints no pair and leaves both tables as they were.
NamesNobody(p) ==
    call[p].guestUserId # 0 /\ call[p].guestUserId \notin 1..Len(pre[p].users)

UnresolvedGuestRejected ==
    \A p \in Procs : (Done(p, "register") /\ NamesNobody(p)) =>
        /\ Failed(p, "BadRequest")
        /\ result[p].refreshToken = 0
        /\ users = pre[p].users /\ tokens = pre[p].tokens

\* the id resolves to nothing and nobody holds the email
UnresolvedGuestRejectedWitness ==
    \E p \in Procs : /\ Done(p, "register") /\ NamesNobody(p) /\ ~HeldEmail(p)
                     /\ Failed(p, "BadRequest")

\* C15 as stated: a register whose guestUserId resolves to no account behaves
\* as a register without guestUserId: Conflict when the email is held, and
\* otherwise a new registered account with the given email and a pair for it.
UnresolvedGuestCreatesAccount ==
    \A p \in Procs : (Done(p, "register") /\ NamesNobody(p)) =>
        IF HeldEmail(p)
        THEN Failed(p, "Conflict")
        ELSE /\ Ok(p)
             /\ Len(users) = Len(pre[p].users) + 1
             /\ users[Len(users)] =
                   RegisteredRow(call[p].email, bcryptHash(call[p].password))
             /\ result[p].accessToken.sub = Len(users)

\* C16: with calls executed one at a time, a register whose guestUserId
\* resolves to an account with isGuest = false fails with BadRequest and leaves
\* both tables as they were; no register that names an account changes the
\* row of an account that was registered at the call.
NamesRegistered(p) ==
    /\ call[p].guestUserId \in 1..Len(pre[p].users)
    /\ ~pre[p].users[call[p].guestUserId].isGuest

RegisteredNotUpgraded ==
    \A p \in Procs : (Done(p, "register") /\ call[p].guestUserId # 0) =>
        /\ NamesRegistered(p) =>
              /\ Failed(p, "BadRequest")
              /\ users = pre[p].users /\ tokens = pre[p].tokens
        /\ \A i \in 1..Len(pre[p].users) :
              ~pre[p].users[i].isGuest => users[i] = pre[p].users[i]

\* the account named is registered and the email offered is free
RegisteredNotUpgradedWitness ==
    \E p \in Procs : /\ Done(p, "register") /\ NamesRegistered(p) /\ ~HeldEmail(p)
                     /\ Failed(p, "BadRequest")

\* C17: with calls executed one at a time, login(userId) fails with
\* Unauthorized when no account has that id, and then leaves both tables as
\* they were; when the account exists it returns a pair whose access token
\* names that account with its isGuest flag and whose refresh token is a value
\* never issued before, with one new row owned by that account.
LoginChecksAccount ==
    \A p \in Procs : Done(p, "login") =>
        LET u == call[p].userId
        IN IF u \notin 1..Len(pre[p].users)
           THEN /\ Failed(p, "Unauthorized")
                /\ result[p].refreshToken = 0
                /\ users = pre[p].users /\ tokens = pre[p].tokens
           ELSE /\ Ok(p)
                /\ result[p].accessToken.sub = u
                /\ result[p].accessToken.isGuest = users[u].isGuest
                /\ ~HadRow(p, result[p].refreshToken)
                /\ pre[p].fate[result[p].refreshToken] = "none"
                /\ \A t \in tokens \ pre[p].tokens :
                       t.userId = u /\ t.tokenHash = hashToken(result[p].refreshToken)
                /\ users = pre[p].users

\* a login with an id no account has, while other accounts exist
LoginChecksAccountWitness ==
    \E p \in Procs : /\ Done(p, "login") /\ Failed(p, "Unauthorized")
                     /\ Len(users) >= 1 /\ tokens # {}

\* C18: with calls executed one at a time, a login that returns a pair adds
\* exactly one row to RefreshToken and removes or changes none, whoever owns
\* it; the rows that were there stay usable: a later refresh presenting a value
\* with an unexpired row returns a pair.
LoginKeepsSessions ==
    /\ \A p \in Procs : (Done(p, "login") /\ Ok(p)) =>
          /\ pre[p].tokens \subseteq tokens
          /\ Cardinality(tokens \ pre[p].tokens) = 1
          /\ fate = pre[p].fate
    /\ \A p \in Procs :
          (Done(p, "refresh") /\ HadValidRow(p, call[p].token)) => Ok(p)

\* a refresh succeeds with the token of a session older than a login of the
\* same account (only login leaves two rows of one account, the older unused)
LoginKeepsSessionsWitness ==
    \E p \in Procs :
        /\ Done(p, "refresh") /\ Ok(p)
        /\ \E o, n \in pre[p].tokens : /\ o.tokenHash = hashToken(call[p].token)
                                         /\ n.userId = o.userId
                                         /\ n.id > o.id

\* C19: under any interleaving, in the step in which a refresh returns a pair
\* the access token and the new row name the account that owned the consumed
\* row, and the access token's isGuest is the isGuest the User table holds for
\* that account at that step.
RefreshCarriesStoredGuestFlag ==
    [][\A p \in Procs : (ReturnsPair(p) /\ call[p].op = "refresh") =>
          LET a == result'[p].accessToken
          IN /\ a.sub = loc[p].userId
             /\ \A t \in tokens' \ tokens : t.userId = loc[p].userId
             /\ a.isGuest = users'[a.sub].isGuest]_vars

FailedRegisterWritesNothing ==
    \A p \in Procs :
        (Done(p, "register") /\ (Failed(p, "Conflict") \/ Failed(p, "BadRequest"))) =>
            /\ users = pre[p].users
            /\ tokens = pre[p].tokens
            /\ fate = pre[p].fate
            /\ result[p].refreshToken = 0

\* the upgrade of a guest that has a session is refused with Conflict
FailedRegisterWritesNothingWitness ==
    \E p \in Procs :
        /\ Done(p, "register") /\ Failed(p, "Conflict") /\ NamesGuest(p)
        /\ \E t \in tokens : t.userId = call[p].guestUserId

\* C24: with calls executed one at a time, a register whose password has fewer
\* than 8 characters fails, and leaves the User table as it was.
passwordLength(password) ==
    CASE password = "short" -> 5
      [] password = "password123" -> 11

ShortPasswordRejected ==
    \A p \in Procs :
        (Done(p, "register") /\ passwordLength(call[p].password) < 8) =>
            /\ ~Ok(p)
            /\ users = pre[p].users

\* C30: under any interleaving, a refresh that does not return a pair fails
\* with Unauthorized.
RefreshFailsUnauthorized ==
    \A p \in Procs :
        (Done(p, "refresh") /\ ~Ok(p)) => Failed(p, "Unauthorized")

\* C21: with requests served one at a time, a request passes JwtAuthGuard
\* exactly when its bearer token is signed, its expiry has not passed and the
\* User table has the account named by sub; req.user then carries that id with
\* the email and the isGuest flag the User table holds at that moment, whatever
\* the token says and whatever the RefreshToken table holds.
GuardedOps == {"getMe", "logoutEndpoint"}
PastGuard(p) == pc[p] \in {"getMe", "logoutHandler"}
Presented(p) == call[p].bearer.payload
ValidBearer(p) ==
    /\ call[p].bearer.kind = "signed"
    /\ pre[p].now < Presented(p).exp

AccessTokenOutlivesSession ==
    \A p \in Procs :
        (call[p].op = "getMe" /\ call[p].bearer.kind = "signed") =>
            IF pre[p].now < Presented(p).exp
            THEN \/ pc[p] = "getMe"
                 \/ /\ pc[p] = "done" /\ result[p].kind = "user"
                    /\ result[p].user = Presented(p).sub
            ELSE pc[p] = "done" /\ Failed(p, "Unauthorized")

\* the profile is served after the account's session was logged out
AccessTokenOutlivesSessionWitness ==
    \E p \in Procs : /\ Done(p, "getMe") /\ result[p].kind = "user"
                     /\ \A t \in tokens : t.userId # result[p].user
                     /\ \E r \in 1..MaxTokens : fate[r] = "loggedOut"
                     /\ Len(users) = 1

\* C25: with requests served one at a time, POST /auth/logout without a bearer
\* token, with one whose signature does not verify, or with an expired one
\* gets Unauthorized and deletes nothing; the row of the cookie's value stays,
\* and a refresh presenting a value with an unexpired row returns a pair.
LogoutRequiresAccessToken ==
    /\ \A p \in Procs : (Done(p, "logoutEndpoint") /\ ~ValidBearer(p)) =>
          /\ Failed(p, "Unauthorized")
          /\ tokens = pre[p].tokens /\ fate = pre[p].fate
    /\ \A p \in Procs : (Done(p, "refresh") /\ Ok(p)) <=>
          (Done(p, "refresh") /\ HadValidRow(p, call[p].token))

\* the access token has expired while the cookie's row has not
LogoutRequiresAccessTokenWitness ==
    \E p \in Procs : /\ Done(p, "logoutEndpoint") /\ Failed(p, "Unauthorized")
                     /\ call[p].bearer.kind = "signed"
                     /\ HadValidRow(p, call[p].token)
                     /\ HasRow(call[p].token)

\* C26: a call of generateInviteCode makes at most maxRetries + 1 findUnique
\* checks, one per generated code, and ends; it returns the code of the first
\* check that found no user, making no check after it, and when maxRetries + 1
\* checks have all found a user it throws the Error that reports
\* maxRetries + 1 attempts and returns no code.
InviteCodeBounded ==
    /\ invitePc # "idle" => findUniqueCalls <= maxRetries + 1
    /\ invitePc = "loop" => findUniqueCalls = attempt /\ (attempt > 0 => existing)
    /\ invitePc = "returned" =>
          /\ ~existing
          /\ inviteResult = [kind |-> "code", code |-> code, attempts |-> 0]
          /\ findUniqueCalls = attempt + 1
    /\ invitePc = "threw" =>
          /\ existing
          /\ findUniqueCalls = maxRetries + 1
          /\ inviteResult = [kind |-> "Error", code |-> 0, attempts |-> maxRetries + 1]

InviteCodeTerminates ==
    /\ []InviteCodeBounded
    /\ (invitePc = "loop") ~> (invitePc \in {"returned", "threw"})

\* every one of the maxRetries + 1 codes collided, with maxRetries above 0
InviteCodeTerminatesWitness ==
    /\ invitePc = "threw" /\ maxRetries = MaxRetriesArg
    /\ findUniqueCalls = MaxRetriesArg + 1


\* ------------------------------------------------------- C27 (SpecClient)
\* the call was answered 401 while accessToken was set, and the refresh it
\* awaited gave a token
Refreshed(k) == k.refreshCalls = 1 /\ k.newToken # 0

\* C27: a call of apiClient whose request is answered 401 while a token is
\* held, and whose refresh succeeds, sends the request a second time with the
\* new token in accessToken and never a third time: it calls
\* refreshAccessToken at most once, and a retry answered with a non-OK status
\* ends the call with an ApiError of that status.
RetriesOnceWithNewToken ==
    \A c \in Calls :
        LET k == client[c]
        IN  /\ k.refreshCalls <= 1
            /\ Len(k.sent) <= 2
            /\ Refreshed(k) <=> (Len(k.sent) = 2)
            /\ Refreshed(k) =>
                  /\ k.res = 401
                  /\ k.pc \in {"retry", "done"}
                  /\ k.sent[2] = k.newToken
                  /\ k.pc = "done" =>
                        /\ k.out.kind \in {"ok", "ApiError", "NetworkError"}
                        /\ k.out.kind = "ApiError" => k.out.status \in Statuses \ {200}

\* the retry itself was answered 401 and the call ended with that ApiError
RetriesOnceWithNewTokenWitness ==
    \E c \in Calls : /\ Refreshed(client[c]) /\ client[c].pc = "done"
                     /\ client[c].sent[1] # 0
                     /\ client[c].out = ApiError(401)

\* ------------------------------------------------------- C28 (SpecClient)
\* call c leaves its wait for the refresh without a token
RefreshFailedFor(c) ==
    /\ client[c].pc = "refresh"
    /\ client'[c].pc # "refresh"
    /\ client'[c].newToken = 0

\* C28: when the refresh a call awaits fails (POST /auth/refresh answers a
\* non-OK status or fetch rejects), accessToken is null afterwards and the
\* call ends with the ApiError of its original 401, its request sent once.
FailedRefreshClearsToken ==
    [][\A c \in Calls : RefreshFailedFor(c) =>
          /\ accessToken' = 0
          /\ client'[c].pc = "done"
          /\ client'[c].out = ApiError(401)
          /\ client'[c].sent = client[c].sent
          /\ Len(client[c].sent) = 1]_vars

\* both calls awaited one refresh, it failed, both ended with ApiError(401)
FailedRefreshClearsTokenWitness ==
    /\ accessToken = 0
    /\ \A c \in Calls : /\ client[c].pc = "done" /\ client[c].refreshCalls = 1
                        /\ client[c].newToken = 0 /\ client[c].out = ApiError(401)
                        /\ client[c].awaited = 1

\* ------------------------------------------------------- C29 (SpecClient)
\* call c starts
Called(c) == client[c].pc = "idle" /\ client'[c].pc # "idle"

\* the endpoint is one of the four, character for character
IsOneOfAuthEndpoints(endpoint) ==
    \E e \in AUTH_ENDPOINTS : endpoint = Url(e, "")

\* what a call does about the guest session, given which endpoints are exempt
GuestRule(c, exempt) ==
    /\ Called(c) =>
          ((client'[c].pc = "ensureGuest" /\ client'[c].guestPosts = 1)
             <=> (/\ accessToken = 0
                  /\ ~client'[c].skipGuest
                  /\ ~exempt))
    /\ Called(c) /\ client'[c].pc # "ensureGuest" =>
          client'[c].guestPosts = 0 /\ client'[c].sent = <<accessToken>>
    /\ client[c].pc = "ensureGuest" /\ client'[c].pc # "ensureGuest" =>
          /\ client'[c].pc = "fetch"
          /\ client'[c].sent = <<accessToken'>>
          /\ handedOut' # handedOut => accessToken' = handedOut'
          /\ handedOut' = handedOut => accessToken' = accessToken
    /\ client'[c].guestPosts <= 1

RegisterEndsConcurrentSessions ==
    [][\A p \in Procs : (ReturnsPair(p) /\ call[p].op = "register") =>
          \A t \in tokens' :
              t.userId = result'[p].accessToken.sub =>
                  t.tokenHash = hashToken(result'[p].refreshToken)]_vars

\* ------------------------------------------------------------ C33 (Spec)
\* C33: under any interleaving, in the step in which a refresh presents a raw
\* value that a finished refresh has already rotated, and so finds no row, no
\* row of RefreshToken owned by the account of the rotated value is left.
ReuseRevokesAllSessions ==
    [][\A p, q \in Procs :
          (/\ p # q
           /\ Done(p, "refresh") /\ Ok(p) /\ call[p].token # 0
           /\ pc[q] = "idle" /\ pc'[q] = "done"
           /\ call'[q].op = "refresh" /\ call'[q].token = call[p].token
           /\ result'[q].kind = "Unauthorized") =>
              \A t \in tokens' : t.userId # result[p].accessToken.sub]_vars

\* ------------------------------------------------------------ C38 (Spec)
\* C38: under any interleaving, a row of User that holds a non-null email and
\* passwordHash is never written again, and a register that returns a pair
\* leaves its own email and hash on the account its access token names.
CredentialsWrittenOnce ==
    [][/\ \A i \in 1..Len(users) :
              (users[i].email # Null /\ users[i].passwordHash # Null) =>
                  users'[i] = users[i]
       /\ \A p \in Procs : (ReturnsPair(p) /\ call[p].op = "register") =>
              LET row == users'[result'[p].accessToken.sub]
              IN  /\ row.email = call[p].email
                  /\ row.passwordHash = bcryptHash(call[p].password)]_vars

\* ------------------------------------------------------------ C32 (Spec)
\* rows of User that hold the email
RowsWithEmail(email) == {i \in 1..Len(users) : users[i].email = email}

\* handler p executes a register without guestUserId
PlainRegister(p) == call[p].op = "register" /\ call[p].guestUserId = 0

\* C32: under any interleaving, a register without guestUserId that passed the
\* email check and reaches its create when a row already holds the email
\* fails with the store's error, not with Conflict, returns no pair and writes
\* nothing, one row holding the email; otherwise its create adds the account.
\* Of two such registers with one email at most one returns a pair.
ConcurrentRegisterOneAccount ==
    /\ [](\A p, q \in Procs :
            /\ (p # q /\ PlainRegister(p) /\ PlainRegister(q)
                  /\ call[p].email = call[q].email
                  /\ pc[p] = "done" /\ pc[q] = "done") => ~(Ok(p) /\ Ok(q))
            /\ (PlainRegister(p) /\ pc[p] = "done" /\ ~Ok(p)) =>
                  result[p] \in {Threw("Conflict"), Threw("PrismaError")})
    /\ [][\A p \in Procs :
            (pc[p] = "createRegisteredWrite" /\ pc'[p] # pc[p]) =>
                IF RowsWithEmail(call[p].email) # {}
                THEN /\ pc'[p] = "done"
                     /\ result'[p] = Threw("PrismaError")
                     /\ users' = users /\ tokens' = tokens /\ issued' = issued
                     /\ Cardinality(RowsWithEmail(call[p].email)) = 1
                ELSE /\ pc'[p] = "deleteOldTokens"
                     /\ users' = Append(users, RegisteredRow(call[p].email,
                                                  bcryptHash(call[p].password)))]_vars

\* both registers passed the check; one created the account and returned a
\* pair, the other was rejected by the unique index
ConcurrentRegisterOneAccountWitness ==
    \E p, q \in Procs :
        /\ p # q /\ PlainRegister(p) /\ PlainRegister(q)
        /\ call[p].email = call[q].email
        /\ pc[p] = "done" /\ Ok(p)
        /\ pc[q] = "done" /\ result[q] = Threw("PrismaError")
        /\ Cardinality(RowsWithEmail(call[p].email)) = 1

\* ------------------------------------------------------------ C34 (Spec)
\* the call handler p is executing in this step
Stepping(p) == IF pc[p] = "idle" THEN call'[p] ELSE call[p]

AccountLifecycleMonotone ==
    [][/\ Len(users') >= Len(users)
       /\ \A i \in 1..Len(users) :
             /\ ~users[i].isGuest => ~users'[i].isGuest
             /\ (users[i].isGuest /\ ~users'[i].isGuest) =>
                   \E p \in Procs : /\ pc[p] = "upgradeUpdate"
                                    /\ call[p].guestUserId = i
                                    /\ loc'[p].userId = i
       /\ \A p \in Procs :
             (pc[p] = "upgradeUpdate" /\ pc'[p] = "deleteOldTokens") =>
                 /\ Len(users') = Len(users)
                 /\ ~users'[call[p].guestUserId].isGuest]_vars

\* a guest was upgraded while the other account stayed a guest
AccountLifecycleMonotoneWitness ==
    /\ Len(users) = 2
    /\ \E p \in Procs, i, j \in 1..Len(users) :
          /\ Done(p, "register") /\ Ok(p) /\ call[p].guestUserId = i
          /\ ~users[i].isGuest /\ users[j].isGuest

\* ------------------------------------------------------- C35 (SpecClient)
\* the calls whose own POST /auth/refresh is outstanding
RefreshOwners == {c \in Calls : client[c].pc = "refresh" /\ client[c].awaited = c}

\* C35: at most one POST /auth/refresh is outstanding; while it is,
\* isRefreshing is set, refreshPromise is its promise and every call waiting
\* for a refresh awaits that promise; when it settles, with a token, a non-OK
\* answer or a rejection, isRefreshing and refreshPromise are reset and no call
\* is left waiting, and the next 401 received with a token starts a new one.
RefreshDeduplicated ==
    /\ [](/\ Cardinality(RefreshOwners) <= 1
          /\ isRefreshing <=> refreshPromise # 0
          /\ refreshPromise # 0 => RefreshOwners = {refreshPromise}
          /\ refreshPromise = 0 => RefreshOwners = {}
          /\ \A c \in Calls : client[c].pc = "refresh" =>
                /\ isRefreshing
                /\ client[c].awaited = refreshPromise)
    /\ [][/\ (refreshPromise # 0 /\ refreshPromise' # refreshPromise) =>
                /\ ~isRefreshing' /\ refreshPromise' = 0
                /\ \A c \in Calls : client'[c].pc # "refresh"
          /\ \A c \in Calls :
                (client[c].pc # "refresh" /\ client'[c].pc = "refresh") =>
                    IF refreshPromise = 0
                    THEN refreshPromise' = c /\ isRefreshing'
                    ELSE refreshPromise' = refreshPromise]_vars

\* one refresh has settled and a later 401 has started another
RefreshDeduplicatedWitness ==
    /\ client[1].pc = "done" /\ client[1].refreshCalls = 1 /\ client[1].awaited = 1
    /\ client[2].pc = "refresh" /\ client[2].awaited = 2 /\ refreshPromise = 2

\* ------------------------------------------------------- C39 (SpecClient)
\* the calls whose POST /auth/guest is outstanding
GuestPosts == {c \in Calls : client[c].pc = "ensureGuest"}

\* C39: no two calls of apiClient have a POST /auth/guest outstanding at the
\* same time: of the calls started together while accessToken is null one
\* posts and the others send their request under the guest it creates.
SingleGuestPost == Cardinality(GuestPosts) <= 1

\* ------------------------------------------------------ C36 (SpecRegister)
\* the bearer token of the request verified when the request was served
Verified(p) ==
    call[p].bearer.kind = "signed" /\ pre[p].now < call[p].bearer.payload.exp

\* C36: with requests served one at a time, POST /auth/register calls
\* upgradeGuest exactly when the request carries a bearer token that verifies
\* and whose isGuest claim is true, and then for the token's sub, adding no
\* account; in every other case (no token, a forged or expired one, an isGuest
\* claim of false) it goes through createRegistered: every account that
\* existed is left as it was, and the request either fails with Conflict or
\* adds one account and returns its pair.
RegisterPathFollowsBearer ==
    \A p \in Procs : call[p].op = "register" =>
        LET b == call[p].bearer
            old == pre[p].users
        IN  /\ call[p].guestUserId # 0 <=> (Verified(p) /\ b.payload.isGuest)
            /\ call[p].guestUserId # 0 =>
                  /\ call[p].guestUserId = b.payload.sub
                  /\ pc[p] \in {"upgradeCheckEmail", "upgradeUpdate", "deleteOldTokens",
                                "generateTokens", "done"}
                  /\ Len(users) = Len(old)
                  /\ (pc[p] = "done" /\ Ok(p)) =>
                        result[p].accessToken.sub = b.payload.sub
            /\ call[p].guestUserId = 0 =>
                  /\ pc[p] \in {"createRegisteredWrite", "deleteOldTokens",
                                "generateTokens", "done"}
                  /\ \A i \in 1..Len(old) : users[i] = old[i]
                  /\ pc[p] = "done" =>
                        IF Ok(p)
                        THEN /\ Len(users) = Len(old) + 1
                             /\ result[p].accessToken.sub = Len(users)
                        ELSE Failed(p, "Conflict") /\ users = old

\* a registered caller's valid token was sent along: a second account was made
RegisterPathFollowsBearerWitness ==
    \E p \in Procs :
        /\ Done(p, "register") /\ Ok(p) /\ Verified(p)
        /\ ~call[p].bearer.payload.isGuest
        /\ call[p].guestUserId = 0
        /\ Len(users) = Len(pre[p].users) + 1
        /\ call[p].bearer.payload.sub # result[p].accessToken.sub

====
